---- MODULE Spec2Model ----
(***************************************************************************)
(* Model of the upload-authorization and object-storage-addressing core of *)
(* the library backend: app/services/s3_service.py (S3Service),            *)
(* app/api/v1/upload.py (the two request handlers), app/api/deps.py (the   *)
(* identity dependencies) and app/models/library_item.py (the item         *)
(* record).  Strings the code splits, joins or formats are sequences of    *)
(* one-character strings, so that split('.') and split('/') are computed   *)
(* and not assumed.                                                        *)
(***************************************************************************)
EXTENDS Integers, Sequences, FiniteSets, TLC

VARIABLES
    s3_client,    \* S3Service.s3_client: "client" (Live) or "None" (Degraded)
    bucket_name,  \* S3Service.bucket_name
    DEBUG,        \* settings.DEBUG
    users,        \* rows of the users table
    items,        \* rows of the library_items table, by item id
    last,         \* the last operation: its inputs, its response, what it did
    kd,           \* one evaluation of the key deriver: inputs and result
    user_calls    \* the create_user / update_user calls in progress, by call

vars == <<s3_client, bucket_name, DEBUG, users, items, last, kd, user_calls>>

(***************************************************************************)
(* Bounds of the model.                                                    *)
(***************************************************************************)
MaxLen == 3        \* longest filename the key deriver is applied to
MaxTokens == 2     \* distinct values uuid4 may return

(***************************************************************************)
(* Strings as sequences of characters.                                     *)
(***************************************************************************)
Alphabet == {"a", "b", ".", "/"}

StringsUpTo(n) == UNION {[1..k -> Alphabet] : k \in 0..n}

Contains(s, c) == \E i \in 1..Len(s) : s[i] = c

Last(parts) == parts[Len(parts)]

\* Python str.split(c): the pieces between the occurrences of c, s itself
\* (one piece) when c does not occur, empty pieces kept.
RECURSIVE Split(_, _)
Split(s, c) ==
    IF ~Contains(s, c) THEN <<s>>
    ELSE LET i == CHOOSE j \in 1..Len(s) :
                      s[j] = c /\ \A k \in 1..(j - 1) : s[k] # c
         IN  <<SubSeq(s, 1, i - 1)>> \o Split(SubSeq(s, i + 1, Len(s)), c)

\* Python c.join(parts)
RECURSIVE Join(_, _)
Join(parts, c) ==
    IF Len(parts) = 0 THEN <<>>
    ELSE IF Len(parts) = 1 THEN parts[1]
    ELSE parts[1] \o <<c>> \o Join(Tail(parts), c)

Digit(d) == <<"0", "1", "2", "3", "4", "5", "6", "7", "8", "9">>[d + 1]

\* str(n) of a natural number, as an f-string formats it
RECURSIVE IntToStr(_)
IntToStr(n) == IF n < 10 THEN <<Digit(n)>>
               ELSE IntToStr(n \div 10) \o <<Digit(n % 10)>>

\* f"{n:02d}": zero-padded to at least two digits
Pad2(n) == IF n < 10 THEN <<"0">> \o IntToStr(n) ELSE IntToStr(n)

uploadsLit == <<"u", "p", "l", "o", "a", "d", "s">>

\* uuid.uuid4() rendered by str(): hex digits and '-', never '.' or '/'
Tokens == {<<"f", Digit(i)>> : i \in 1..MaxTokens}

\* datetime.utcnow(): the clock's year and month
Nows == {[year |-> y, month |-> m] : y \in {1999, 2024}, m \in {1, 9, 10, 12}}

\* str(user.id) of the users of the model, and the placeholder of DEBUG mode
uid1 == <<"u", "-", "1">>
uid2 == <<"u", "-", "2">>
testUserLit == <<"t", "e", "s", "t", "-", "u", "s", "e", "r">>
UserIds == {uid1, uid2}

(***************************************************************************)
(* Key Deriver: S3Service.generate_s3_key.  now and token are what         *)
(* datetime.utcnow() and uuid.uuid4() return during the call.              *)
(***************************************************************************)
generate_s3_key(filename, user_id, now, token) ==
    LET file_extension == IF Contains(filename, ".")
                          THEN Last(Split(filename, "."))
                          ELSE <<>>
        unique_filename == IF file_extension # <<>>
                           THEN token \o <<".">> \o file_extension
                           ELSE token
    IN  uploadsLit \o <<"/">> \o IntToStr(now.year) \o <<"/">>
            \o Pad2(now.month) \o <<"/">> \o user_id \o <<"/">>
            \o unique_filename

(***************************************************************************)
(* State after construction.                                               *)
(***************************************************************************)
kdIdle == [phase |-> "idle"]

\* no create_user or update_user call in progress
noCalls == <<>>

lastNone == [op |-> "none"]

(***************************************************************************)
(* Python values the code compares or tests for truth.                     *)
(***************************************************************************)
None == [isNone |-> TRUE]

\* a str value and a member of an enum.Enum class: == between the two is
\* False in Python, whatever the member's value
Str(v) == [type |-> "str", value |-> v]
EnumMember(cls, v) == [type |-> cls, value |-> v]

(***************************************************************************)
(* Program constants.                                                      *)
(***************************************************************************)
MaxUploadBytes == 100 * 1024 * 1024     \* s3_service.py:130
DefaultExpiresIn == 3600                \* s3_service.py:90, 155
MaxFilenameLen == 255

(***************************************************************************)
(* The storage provider: what one boto3 call does.  kind is the exception  *)
(* class raised ("none": the call returns), text its message.              *)
(***************************************************************************)
ErrTexts == {"AccessDenied", "timeout"}

ProviderOutcomes ==
    {[ok |-> TRUE, kind |-> "none", text |-> ""]}
        \cup {[ok |-> FALSE, kind |-> "ClientError", text |-> t] : t \in ErrTexts}
        \cup {[ok |-> FALSE, kind |-> "Exception", text |-> "timeout"]}

\* a URL: https://{bucket}.s3.amazonaws.com/{key}?{query}
Url(bucket, key, query) == [bucket |-> bucket, key |-> key, query |-> query]

NoValue == [none |-> TRUE]

\* what a service method did: returned value, or raised exc; the provider
\* calls it made, and what it logged
Returned(value, calls, log) ==
    [raised |-> FALSE, exc |-> NoValue, value |-> value, calls |-> calls, log |-> log]
Raised(exc, calls, log) ==
    [raised |-> TRUE, exc |-> exc, value |-> NoValue, calls |-> calls, log |-> log]

\* a call that always gets the default expiry, whatever it passes
expires_in_or_default_ignored(given, expires_in) == DefaultExpiresIn

\* expires_in: int = 3600, as the call binds it: the argument when the call
\* passes one, the default otherwise
expires_in_or_default(given, expires_in) ==
    IF given THEN expires_in ELSE DefaultExpiresIn

\* the result of a method call together with the arguments the call bound
WithArgs(result, args) ==
    [raised |-> result.raised, exc |-> result.exc, value |-> result.value,
     calls |-> result.calls, log |-> result.log, args |-> args]

(***************************************************************************)
(* Credential Issuer: S3Service.generate_presigned_upload_url.             *)
(***************************************************************************)
\* the grant without the condition on the original filename
presigned_post_call_untagged(s3_key, filename, content_type, user_id, expires_in) ==
    [api |-> "generate_presigned_post",
     Bucket |-> bucket_name,
     Key |-> s3_key,
     Fields |-> [ContentType |-> content_type,
                 meta_user_id |-> user_id,
                 meta_original_filename |-> filename],
     Conditions |-> [ContentType |-> content_type,
                     meta_user_id |-> user_id,
                     content_length_range |-> <<1, 100 * 1024 * 1024>>],
     ExpiresIn |-> expires_in]

\* the grant with a size range that starts at 0
presigned_post_call_from_zero(s3_key, filename, content_type, user_id, expires_in) ==
    [api |-> "generate_presigned_post",
     Bucket |-> bucket_name,
     Key |-> s3_key,
     Fields |-> [ContentType |-> content_type,
                 meta_user_id |-> user_id,
                 meta_original_filename |-> filename],
     Conditions |-> [ContentType |-> content_type,
                     meta_user_id |-> user_id,
                     meta_original_filename |-> filename,
                     content_length_range |-> <<0, 100 * 1024 * 1024>>],
     ExpiresIn |-> expires_in]

presigned_post_call(s3_key, filename, content_type, user_id, expires_in) ==
    [api |-> "generate_presigned_post",
     Bucket |-> bucket_name,
     Key |-> s3_key,
     Fields |-> [ContentType |-> content_type,
                 meta_user_id |-> user_id,
                 meta_original_filename |-> filename],
     Conditions |-> [ContentType |-> content_type,
                     meta_user_id |-> user_id,
                     meta_original_filename |-> filename,
                     content_length_range |-> <<1, 100 * 1024 * 1024>>],
     ExpiresIn |-> expires_in]

\* generate_presigned_upload_url falling back to the mock credential when the
\* provider call fails
generate_presigned_upload_url_fallback(filename, content_type, user_id, expires_in, now, token, prov) ==
    LET s3_key == generate_s3_key(filename, user_id, now, token)
        call == presigned_post_call(s3_key, filename, content_type, user_id, expires_in)
        mock == [upload_url |-> Url(bucket_name, s3_key, "mock=true"),
                 s3_key |-> s3_key,
                 expires_in |-> expires_in,
                 fields |-> NoValue,
                 is_mock |-> TRUE]
    IN  WithArgs(
        IF s3_client = "None" THEN Returned(mock, <<>>, <<>>)
        ELSE IF prov.ok
        THEN Returned([upload_url |-> Url(bucket_name, <<>>, ""),
                       s3_key |-> s3_key,
                       expires_in |-> expires_in,
                       fields |-> call.Fields,
                       is_mock |-> FALSE], <<call>>, <<[level |-> "info", text |-> ""]>>)
        ELSE Returned(mock, <<call>>, <<[level |-> "error", text |-> prov.text]>>),
        [filename |-> filename, content_type |-> content_type,
                  user_id |-> user_id, expires_in |-> expires_in])

generate_presigned_upload_url(filename, content_type, user_id, expires_in, now, token, prov) ==
    LET s3_key == generate_s3_key(filename, user_id, now, token)
        call == presigned_post_call(s3_key, filename, content_type, user_id, expires_in)
    IN  WithArgs(
        IF s3_client = "None"
        THEN Returned([upload_url |-> Url(bucket_name, s3_key, "mock=true"),
                       s3_key |-> s3_key,
                       expires_in |-> expires_in,
                       fields |-> NoValue,
                       is_mock |-> TRUE], <<>>, <<>>)
        ELSE IF prov.ok
        THEN Returned([upload_url |-> Url(bucket_name, <<>>, ""),
                       s3_key |-> s3_key,
                       expires_in |-> expires_in,
                       fields |-> call.Fields,
                       is_mock |-> FALSE], <<call>>, <<[level |-> "info", text |-> ""]>>)
        ELSE IF prov.kind = "ClientError"
        THEN Raised([msg |-> "upload url failed", text |-> prov.text],
                    <<call>>, <<[level |-> "error", text |-> prov.text]>>)
        ELSE Raised([msg |-> "upload url error", text |-> prov.text],
                    <<call>>, <<[level |-> "error", text |-> prov.text]>>),
        [filename |-> filename, content_type |-> content_type,
                  user_id |-> user_id, expires_in |-> expires_in])

(***************************************************************************)
(* Credential Issuer: S3Service.generate_presigned_download_url.  An       *)
(* exception that is no ClientError leaves the method as it was raised.    *)
(***************************************************************************)
presigned_get_call(s3_key, expires_in) ==
    [api |-> "generate_presigned_url",
     Bucket |-> bucket_name,
     Key |-> s3_key,
     ExpiresIn |-> expires_in]

\* generate_presigned_download_url asking the provider a second time after a
\* ClientError
generate_presigned_download_url_retry(s3_key, expires_in, prov) ==
    LET call == presigned_get_call(s3_key, expires_in)
    IN  WithArgs(
        IF s3_client = "None"
        THEN Returned(Url(bucket_name, s3_key, "mock=true"), <<>>, <<>>)
        ELSE IF prov.ok
        THEN Returned(Url(bucket_name, s3_key, "X-Amz-Signature"), <<call>>, <<>>)
        ELSE IF prov.kind = "ClientError"
        THEN Raised([msg |-> "download url failed", text |-> prov.text],
                    <<call, call>>, <<[level |-> "error", text |-> prov.text]>>)
        ELSE Raised([msg |-> "", text |-> prov.text], <<call>>, <<>>),
        [s3_key |-> s3_key, expires_in |-> expires_in])

\* generate_presigned_download_url whose Degraded URL carries no mock marker
generate_presigned_download_url_unflagged(s3_key, expires_in, prov) ==
    LET call == presigned_get_call(s3_key, expires_in)
    IN  WithArgs(
        IF s3_client = "None"
        THEN Returned(Url(bucket_name, s3_key, ""), <<>>, <<>>)
        ELSE IF prov.ok
        THEN Returned(Url(bucket_name, s3_key, "X-Amz-Signature"), <<call>>, <<>>)
        ELSE IF prov.kind = "ClientError"
        THEN Raised([msg |-> "download url failed", text |-> prov.text],
                    <<call>>, <<[level |-> "error", text |-> prov.text]>>)
        ELSE Raised([msg |-> "", text |-> prov.text], <<call>>, <<>>),
        [s3_key |-> s3_key, expires_in |-> expires_in])

generate_presigned_download_url(s3_key, expires_in, prov) ==
    LET call == presigned_get_call(s3_key, expires_in)
    IN  WithArgs(
        IF s3_client = "None"
        THEN Returned(Url(bucket_name, s3_key, "mock=true"), <<>>, <<>>)
        ELSE IF prov.ok
        THEN Returned(Url(bucket_name, s3_key, "X-Amz-Signature"), <<call>>, <<>>)
        ELSE IF prov.kind = "ClientError"
        THEN Raised([msg |-> "download url failed", text |-> prov.text],
                    <<call>>, <<[level |-> "error", text |-> prov.text]>>)
        ELSE Raised([msg |-> "", text |-> prov.text], <<call>>, <<>>),
        [s3_key |-> s3_key, expires_in |-> expires_in])

(***************************************************************************)
(* Identity: app/api/deps.py.  Credentials are the bearer token of the     *)
(* request: absent, or a token that decodes or not and carries a subject   *)
(* ("": no sub claim).  dbError: the user lookup raises.                   *)
(***************************************************************************)
NoCredentials == [present |-> FALSE, decodes |-> FALSE, sub |-> ""]

Credentials ==
    {NoCredentials, [present |-> TRUE, decodes |-> FALSE, sub |-> ""]}
        \cup {[present |-> TRUE, decodes |-> TRUE, sub |-> u] :
                 u \in {"", "alice", "bob", "ghost"}}

\* CRUDUser.get_by_username: the row with that username, or None
get_by_username(username) ==
    IF \E u \in users : u.username = username
    THEN CHOOSE u \in users : u.username = username
    ELSE None

\* get_current_user_optional without its except Exception clause: an error
\* of the user lookup leaves the dependency as it was raised
get_current_user_optional_unguarded(credentials, dbError) ==
    IF ~credentials.present THEN [raised |-> FALSE, user |-> None]
    ELSE IF ~credentials.decodes THEN [raised |-> FALSE, user |-> None]
    ELSE IF credentials.sub = "" THEN [raised |-> FALSE, user |-> None]
    ELSE IF dbError THEN [raised |-> TRUE, user |-> None]
    ELSE [raised |-> FALSE, user |-> get_by_username(credentials.sub)]

\* get_current_user_optional: None without credentials, for a token that
\* does not decode (except JWTError), for a token without sub, and for an
\* error of the user lookup (except Exception); else what the lookup returns
get_current_user_optional(credentials, dbError) ==
    IF ~credentials.present THEN [raised |-> FALSE, user |-> None]
    ELSE IF ~credentials.decodes THEN [raised |-> FALSE, user |-> None]
    ELSE IF credentials.sub = "" THEN [raised |-> FALSE, user |-> None]
    ELSE IF dbError THEN [raised |-> FALSE, user |-> None]
    ELSE [raised |-> FALSE, user |-> get_by_username(credentials.sub)]

\* get_current_active_user letting a lookup error through with some
\* stored user
get_current_active_user_lenient(credentials, dbError) ==
    LET user == IF ~credentials.present \/ ~credentials.decodes
                   \/ credentials.sub = ""
                THEN None
                ELSE IF dbError THEN CHOOSE u \in users : TRUE
                ELSE get_by_username(credentials.sub)
    IN  IF user = None
        THEN [raised |-> TRUE, status |-> 401, user |-> None]
        ELSE [raised |-> FALSE, status |-> 200, user |-> user]

\* get_current_user, then get_current_active_user (which returns its
\* argument): the user, or credentials_exception (401) for every failure
get_current_active_user(credentials, dbError) ==
    LET user == IF ~credentials.present \/ ~credentials.decodes
                   \/ credentials.sub = "" \/ dbError
                THEN None
                ELSE get_by_username(credentials.sub)
    IN  IF user = None
        THEN [raised |-> TRUE, status |-> 401, user |-> None]
        ELSE [raised |-> FALSE, status |-> 200, user |-> user]

(***************************************************************************)
(* Upload Validator: file_service.validate_upload_request.                 *)
(***************************************************************************)
IsMimeType(content_type) ==
    LET parts == Split(content_type, "/")
    IN  Len(parts) = 2 /\ parts[1] # <<>> /\ parts[2] # <<>>

validate_upload_request(filename, content_type, file_size) ==
    IF filename = <<>> \/ Len(filename) > MaxFilenameLen
    THEN [valid |-> FALSE, error_msg |-> "filename", file_info |-> NoValue]
    ELSE IF ~IsMimeType(content_type)
    THEN [valid |-> FALSE, error_msg |-> "content type", file_info |-> NoValue]
    ELSE IF file_size < 1 \/ file_size > MaxUploadBytes
    THEN [valid |-> FALSE, error_msg |-> "file size", file_info |-> NoValue]
    ELSE [valid |-> TRUE, error_msg |-> "",
          file_info |-> [filename |-> filename, content_type |-> content_type,
                         file_size |-> file_size]]

(***************************************************************************)
(* What a handler did: the HTTP response (status, detail, data), the       *)
(* service calls it made with their results, and what it logged.           *)
(***************************************************************************)
Response(status, detail, data, issuer, log) ==
    [status |-> status, detail |-> detail, data |-> data, issuer |-> issuer,
     log |-> log]

\* a response of the download route together with the item lookups
\* (library_item_crud.get) made on the way to it
WithLookups(response, lookups) ==
    [status |-> response.status, detail |-> response.detail,
     data |-> response.data, issuer |-> response.issuer, log |-> response.log,
     lookups |-> lookups]

\* the part of a response the caller receives
UserVisible(r) == [status |-> r.status, detail |-> r.detail, data |-> r.data]

\* every provider call a handler's service calls made, in order
RECURSIVE ProviderCalls(_)
ProviderCalls(issuer) ==
    IF issuer = <<>> THEN <<>>
    ELSE issuer[1].calls \o ProviderCalls(Tail(issuer))

(***************************************************************************)
(* RequestUploadCredential: upload.py generate_real_presigned_url.         *)
(***************************************************************************)
\* upload_error_response handing the exception's text to the caller
upload_error_response_leaky(e, issuer) ==
    Response(500, e.text, NoValue, issuer, <<[level |-> "error", text |-> e.text]>>)

\* except Exception as e: the error is logged, the response is fixed
upload_error_response(e, issuer) ==
    Response(500, "upload url generation failed", NoValue, issuer,
             <<[level |-> "error", text |-> e.text]>>)

\* upload_identity giving the placeholder whatever DEBUG is
upload_identity_open(current_user) ==
    IF current_user = None
    THEN [raised |-> FALSE, user_id |-> testUserLit]
    ELSE [raised |-> FALSE, user_id |-> current_user.id]

\* the caller's identity, or the placeholder under DEBUG, or 401
upload_identity(current_user) ==
    IF current_user = None
    THEN IF ~DEBUG
         THEN [raised |-> TRUE, user_id |-> <<>>]
         ELSE [raised |-> FALSE, user_id |-> testUserLit]
    ELSE [raised |-> FALSE, user_id |-> current_user.id]

\* generate_real_presigned_url asking the issuer first and checking afterwards
generate_real_presigned_url_issue_first(request, current_user, now, token, prov) ==
    LET v == validate_upload_request(request.filename, request.content_type,
                                     request.file_size)
        who == upload_identity(current_user)
        upload_info == generate_presigned_upload_url(
                           request.filename, request.content_type, who.user_id,
                           expires_in_or_default(FALSE, 0), now, token, prov)
    IN  IF upload_info.raised
        THEN upload_error_response(upload_info.exc, <<upload_info>>)
        ELSE IF ~v.valid THEN Response(400, v.error_msg, NoValue, <<upload_info>>, <<>>)
        ELSE IF who.raised
        THEN Response(401, "unauthorized", NoValue, <<upload_info>>, <<>>)
        ELSE Response(200, "",
                      [upload_url |-> upload_info.value.upload_url,
                       s3_key |-> upload_info.value.s3_key,
                       expires_in |-> upload_info.value.expires_in,
                       fields |-> upload_info.value.fields,
                       file_info |-> v.file_info],
                      <<upload_info>>, <<[level |-> "info", text |-> ""]>>)

generate_real_presigned_url(request, current_user, now, token, prov) ==
    LET v == validate_upload_request(request.filename, request.content_type,
                                     request.file_size)
        who == upload_identity(current_user)
        upload_info == generate_presigned_upload_url(
                           request.filename, request.content_type, who.user_id,
                           expires_in_or_default(FALSE, 0), now, token, prov)
    IN  IF ~v.valid THEN Response(400, v.error_msg, NoValue, <<>>, <<>>)
        ELSE IF who.raised THEN Response(401, "unauthorized", NoValue, <<>>, <<>>)
        ELSE IF upload_info.raised
        THEN upload_error_response(upload_info.exc, <<upload_info>>)
        ELSE Response(200, "",
                      [upload_url |-> upload_info.value.upload_url,
                       s3_key |-> upload_info.value.s3_key,
                       expires_in |-> upload_info.value.expires_in,
                       fields |-> upload_info.value.fields,
                       file_info |-> v.file_info],
                      <<upload_info>>, <<[level |-> "info", text |-> ""]>>)

(***************************************************************************)
(* Key Deriver: S3Service.generate_thumbnail_key.                          *)
(***************************************************************************)
thumbnailsLit == <<"t", "h", "u", "m", "b", "n", "a", "i", "l", "s">>
thumbLit == <<"_", "t", "h", "u", "m", "b">>

\* filename.rsplit('.', 1) of a filename that contains '.'
RSplitDot(filename) ==
    LET i == CHOOSE j \in 1..Len(filename) :
                 filename[j] = "." /\ \A k \in (j + 1)..Len(filename) : filename[k] # "."
    IN  [name |-> SubSeq(filename, 1, i - 1), ext |-> SubSeq(filename, i + 1, Len(filename))]

\* generate_thumbnail_key naming every thumbnail <name>_thumb, without the
\* extension
generate_thumbnail_key_no_ext(s3_key) ==
    LET path_parts == Split(s3_key, "/")
        filename == Last(path_parts)
        ne == IF Contains(filename, ".") THEN RSplitDot(filename)
              ELSE [name |-> filename, ext |-> <<>>]
    IN  thumbnailsLit \o <<"/">>
            \o Join(SubSeq(path_parts, 2, Len(path_parts) - 1), "/")
            \o <<"/">> \o ne.name \o thumbLit

generate_thumbnail_key(s3_key) ==
    LET path_parts == Split(s3_key, "/")
        filename == Last(path_parts)
        ne == IF Contains(filename, ".") THEN RSplitDot(filename)
              ELSE [name |-> filename, ext |-> <<>>]
        thumbnail_filename == IF ne.ext # <<>>
                              THEN ne.name \o thumbLit \o <<".">> \o ne.ext
                              ELSE ne.name \o thumbLit
    IN  thumbnailsLit \o <<"/">>
            \o Join(SubSeq(path_parts, 2, Len(path_parts) - 1), "/")
            \o <<"/">> \o thumbnail_filename

(***************************************************************************)
(* Item Directory: the library_items rows (models/library_item.py) and     *)
(* the lookup by id.                                                       *)
(***************************************************************************)
VisibilityType == {EnumMember("VisibilityType", "public"),
                   EnumMember("VisibilityType", "private")}

\* LibraryItem.is_deleted
is_deleted(item) == item.deleted_at # None

\* Python truth of an Optional[str] column
Truthy(x) == x # None /\ x.value # <<>>

ItemIds == {"i1", "i2"}
RequestedIds == ItemIds \cup {"missing"}

key1 == generate_s3_key(<<"a", ".", "b">>, uid1, [year |-> 2024, month |-> 12], <<"f", "1">>)
key2 == generate_s3_key(<<"a">>, uid1, [year |-> 2024, month |-> 9], <<"f", "2">>)

\* library_item_crud.get(db, id=item_id): the row with that id, or None
library_item_crud_get(item_id) ==
    IF item_id \in DOMAIN items THEN items[item_id] ELSE None

(***************************************************************************)
(* RequestDownloadCredential: upload.py generate_download_url.             *)
(***************************************************************************)
\* except Exception as e: the error is logged, the response is fixed
download_error_response(e, issuer) ==
    Response(500, "download url generation failed", NoValue, issuer,
             <<[level |-> "error", text |-> e.text]>>)

\* download_allowed with the ownership check left out
download_allowed_anyone(item, current_user) == TRUE

\* is_owner or is_public, as the handler computes them
download_allowed(item, current_user) ==
    LET is_owner == item.user_profile_id = current_user.id
        is_public == item.visibility = Str("public")
    IN  is_owner \/ is_public

\* generate_download_url handing out the item's URL as the thumbnail's,
\* without a second issuer call
generate_download_url_one_call(item_id, current_user, prov1, prov2) ==
    LET item == library_item_crud_get(item_id)
        download == generate_presigned_download_url(item.s3_key, 3600, prov1)
        thumbnail == generate_presigned_download_url(item.s3_thumbnail_key.value,
                                                     3600, prov2)
        result == [download_url |-> download.value,
                   filename |-> item.original_filename,
                   file_size |-> IntToStr(item.file_size)]
    IN  WithLookups(
        IF item = None THEN Response(404, "file not found", NoValue, <<>>, <<>>)
        ELSE IF ~download_allowed(item, current_user)
        THEN Response(403, "no access to this file", NoValue, <<>>, <<>>)
        ELSE IF download.raised
        THEN download_error_response(download.exc, <<download>>)
        ELSE IF ~Truthy(item.s3_thumbnail_key)
        THEN Response(200, "", result, <<download>>,
                      <<[level |-> "info", text |-> ""]>>)
        ELSE Response(200, "",
                      [download_url |-> download.value,
                       filename |-> item.original_filename,
                       file_size |-> IntToStr(item.file_size),
                       thumbnail_url |-> download.value],
                      <<download>>,
                      <<[level |-> "info", text |-> ""]>>),
        <<[api |-> "library_item_crud.get", id |-> item_id]>>)

generate_download_url(item_id, current_user, prov1, prov2) ==
    LET item == library_item_crud_get(item_id)
        download == generate_presigned_download_url(item.s3_key, 3600, prov1)
        thumbnail == generate_presigned_download_url(item.s3_thumbnail_key.value,
                                                     3600, prov2)
        result == [download_url |-> download.value,
                   filename |-> item.original_filename,
                   file_size |-> IntToStr(item.file_size)]
    IN  WithLookups(
        IF item = None THEN Response(404, "file not found", NoValue, <<>>, <<>>)
        ELSE IF ~download_allowed(item, current_user)
        THEN Response(403, "no access to this file", NoValue, <<>>, <<>>)
        ELSE IF download.raised
        THEN download_error_response(download.exc, <<download>>)
        ELSE IF ~Truthy(item.s3_thumbnail_key)
        THEN Response(200, "", result, <<download>>,
                      <<[level |-> "info", text |-> ""]>>)
        ELSE IF thumbnail.raised
        THEN download_error_response(thumbnail.exc, <<download, thumbnail>>)
        ELSE Response(200, "",
                      [download_url |-> download.value,
                       filename |-> item.original_filename,
                       file_size |-> IntToStr(item.file_size),
                       thumbnail_url |-> thumbnail.value],
                      <<download, thumbnail>>,
                      <<[level |-> "info", text |-> ""]>>),
        <<[api |-> "library_item_crud.get", id |-> item_id]>>)

(***************************************************************************)
(* The routes: the dependencies FastAPI resolves, then the handler.        *)
(***************************************************************************)
\* an exception that leaves a dependency is answered by the framework
upload_route(request, credentials, dbError, now, token, prov) ==
    LET auth == get_current_user_optional(credentials, dbError)
    IN  IF auth.raised
        THEN Response(500, "internal server error", NoValue, <<>>, <<>>)
        ELSE generate_real_presigned_url(request, auth.user, now, token, prov)

download_route(item_id, credentials, dbError, prov1, prov2) ==
    LET auth == get_current_active_user(credentials, dbError)
    IN  IF auth.raised
        THEN WithLookups(Response(401, "invalid credentials", NoValue, <<>>, <<>>),
                         <<>>)
        ELSE generate_download_url(item_id, auth.user, prov1, prov2)

(***************************************************************************)
(* Best-effort storage operations of S3Service.                            *)
(***************************************************************************)
delete_file(s3_key, prov) ==
    LET call == [api |-> "delete_object", Bucket |-> bucket_name, Key |-> s3_key]
    IN  IF s3_client = "None" THEN Returned(TRUE, <<>>, <<>>)
        ELSE IF prov.ok THEN Returned(TRUE, <<call>>, <<>>)
        ELSE IF prov.kind = "ClientError"
        THEN Returned(FALSE, <<call>>, <<[level |-> "error", text |-> prov.text]>>)
        ELSE Raised([msg |-> "", text |-> prov.text], <<call>>, <<>>)

copy_file(source_key, dest_key, prov) ==
    LET call == [api |-> "copy_object", Bucket |-> bucket_name, Key |-> dest_key,
                 CopySource |-> [Bucket |-> bucket_name, Key |-> source_key]]
    IN  IF s3_client = "None" THEN Returned(TRUE, <<>>, <<>>)
        ELSE IF prov.ok THEN Returned(TRUE, <<call>>, <<>>)
        ELSE IF prov.kind = "ClientError"
        THEN Returned(FALSE, <<call>>, <<[level |-> "error", text |-> prov.text]>>)
        ELSE Raised([msg |-> "", text |-> prov.text], <<call>>, <<>>)

get_file_info(s3_key, prov) ==
    LET call == [api |-> "head_object", Bucket |-> bucket_name, Key |-> s3_key]
    IN  IF s3_client = "None"
        THEN Returned([size |-> 1024000, is_mock |-> TRUE], <<>>, <<>>)
        ELSE IF prov.ok
        THEN Returned([size |-> 0, is_mock |-> FALSE], <<call>>, <<>>)
        ELSE IF prov.kind = "ClientError"
        THEN Returned(None, <<call>>, <<[level |-> "error", text |-> prov.text]>>)
        ELSE Raised([msg |-> "", text |-> prov.text], <<call>>, <<>>)

(***************************************************************************)
(* Classification helpers of S3Service.                                    *)
(***************************************************************************)
imageLit == <<"i", "m", "a", "g", "e">>
videoLit == <<"v", "i", "d", "e", "o">>

\* str.startswith
StartsWith(s, prefix) ==
    Len(s) >= Len(prefix) /\ SubSeq(s, 1, Len(prefix)) = prefix

\* is_image_file testing for 'image' without the '/'
is_image_file_any_prefix(content_type) == StartsWith(content_type, imageLit)

is_image_file(content_type) == StartsWith(content_type, imageLit \o <<"/">>)

is_video_file(content_type) == StartsWith(content_type, videoLit \o <<"/">>)

needs_thumbnail(content_type) ==
    is_image_file(content_type) \/ is_video_file(content_type)

(***************************************************************************)
(* Inputs of the requests.                                                 *)
(***************************************************************************)
ctImage == <<"i", "m", "a", "g", "e", "/", "p", "n", "g">>
ctBad == <<"b", "a", "d">>

UploadRequest(f, c, n) == [filename |-> f, content_type |-> c, file_size |-> n]

\* two requests the validator accepts, and one that fails each of its checks
UploadRequests ==
    {UploadRequest(<<"a", ".", "b">>, ctImage, 1),
     UploadRequest(<<"a">>, ctImage, MaxUploadBytes),
     UploadRequest(<<>>, ctImage, 1),
     UploadRequest(<<"a", ".", "b">>, ctBad, 1),
     UploadRequest(<<"a", ".", "b">>, ctImage, 0),
     UploadRequest(<<"a", ".", "b">>, ctImage, MaxUploadBytes + 1)}

nowOfRequests == [year |-> 2024, month |-> 12]

alice == [id |-> uid1, username |-> "alice", nickname |-> "al"]
bob == [id |-> uid2, username |-> "bob", nickname |-> "bo"]

ItemRow(owner, visibility, s3_key, thumbnail, name, size) ==
    [user_profile_id |-> owner, visibility |-> visibility, s3_key |-> s3_key,
     s3_thumbnail_key |-> thumbnail, original_filename |-> name,
     file_size |-> size, deleted_at |-> None]

(***************************************************************************)
(* Init: the service constructed (Live or Degraded), the settings loaded,  *)
(* two users stored, and two items of the first user (one with a           *)
(* thumbnail, one without), both public or both private.                   *)
(***************************************************************************)
Init ==
    /\ s3_client \in {"client", "None"}
    /\ bucket_name = "library-bucket"
    /\ DEBUG \in BOOLEAN
    /\ users = {alice, bob}
    /\ \E v \in VisibilityType :
           items = [i \in ItemIds |->
                      IF i = "i1"
                      THEN ItemRow(uid1, v, key1, Str(generate_thumbnail_key(key1)),
                                   <<"a", ".", "b">>, 1)
                      ELSE ItemRow(uid1, v, key2, None, <<"a">>, MaxUploadBytes)]
    /\ last = lastNone
    /\ kd = kdIdle
    /\ user_calls = noCalls

config == <<s3_client, bucket_name, DEBUG>>

(***************************************************************************)
(* Actions: one per operation.  A request is taken when none is being      *)
(* answered; last keeps what it did until the reply is handed back.        *)
(***************************************************************************)
RequestUploadCredential(request, credentials, dbError, token, prov) ==
    /\ last = lastNone
    /\ last' = [op |-> "upload", mode |-> s3_client, request |-> request, credentials |-> credentials,
                dbError |-> dbError, now |-> nowOfRequests, token |-> token,
                prov |-> prov,
                identity |-> get_current_user_optional(credentials, dbError),
                response |-> upload_route(request, credentials, dbError,
                                          nowOfRequests, token, prov)]
    /\ UNCHANGED <<config, users, items, kd, user_calls>>

\* RequestDownloadCredential clearing the thumbnail keys of the rows
RequestDownloadCredential_forgetful(item_id, credentials, dbError, prov1, prov2) ==
    /\ last = lastNone
    /\ last' = [op |-> "download", mode |-> s3_client, item_id |-> item_id,
                item |-> library_item_crud_get(item_id),
                credentials |-> credentials, dbError |-> dbError,
                prov1 |-> prov1, prov2 |-> prov2,
                response |-> download_route(item_id, credentials, dbError,
                                            prov1, prov2)]
    /\ items' = [i \in ItemIds |-> [items[i] EXCEPT !.s3_thumbnail_key = None]]
    /\ UNCHANGED <<config, users, kd, user_calls>>

RequestDownloadCredential(item_id, credentials, dbError, prov1, prov2) ==
    /\ last = lastNone
    /\ last' = [op |-> "download", mode |-> s3_client, item_id |-> item_id,
                item |-> library_item_crud_get(item_id),
                credentials |-> credentials, dbError |-> dbError,
                prov1 |-> prov1, prov2 |-> prov2,
                response |-> download_route(item_id, credentials, dbError,
                                            prov1, prov2)]
    /\ UNCHANGED <<config, users, items, kd, user_calls>>

\* DeleteFile dropping the client after a failed provider call
DeleteFile_downgrade(s3_key, prov) ==
    /\ last = lastNone
    /\ last' = [op |-> "delete", mode |-> s3_client, s3_key |-> s3_key, prov |-> prov,
                result |-> delete_file(s3_key, prov)]
    /\ s3_client' = IF prov.ok THEN s3_client ELSE "None"
    /\ UNCHANGED <<bucket_name, DEBUG, users, items, kd, user_calls>>

DeleteFile(s3_key, prov) ==
    /\ last = lastNone
    /\ last' = [op |-> "delete", mode |-> s3_client, s3_key |-> s3_key, prov |-> prov,
                result |-> delete_file(s3_key, prov)]
    /\ UNCHANGED <<config, users, items, kd, user_calls>>

CopyFile(source_key, dest_key, prov) ==
    /\ last = lastNone
    /\ last' = [op |-> "copy", mode |-> s3_client, source_key |-> source_key, dest_key |-> dest_key,
                prov |-> prov, result |-> copy_file(source_key, dest_key, prov)]
    /\ UNCHANGED <<config, users, items, kd, user_calls>>

GetFileInfo(s3_key, prov) ==
    /\ last = lastNone
    /\ last' = [op |-> "info", mode |-> s3_client, s3_key |-> s3_key, prov |-> prov,
                result |-> get_file_info(s3_key, prov)]
    /\ UNCHANGED <<config, users, items, kd, user_calls>>

\* S3Service.generate_presigned_upload_url called on its own
IssueUploadCredential(filename, content_type, user_id, given, expires_in, token, prov) ==
    /\ last = lastNone
    /\ last' = [op |-> "issue_upload", mode |-> s3_client, filename |-> filename,
                content_type |-> content_type, user_id |-> user_id,
                given |-> given, expires_in |-> expires_in,
                now |-> nowOfRequests, token |-> token,
                prov |-> prov,
                result |-> generate_presigned_upload_url(
                              filename, content_type, user_id,
                              expires_in_or_default(given, expires_in),
                              nowOfRequests, token, prov)]
    /\ UNCHANGED <<config, users, items, kd, user_calls>>

\* S3Service.generate_presigned_download_url called on its own
IssueDownloadCredential(s3_key, given, expires_in, prov) ==
    /\ last = lastNone
    /\ last' = [op |-> "issue_download", mode |-> s3_client, s3_key |-> s3_key,
                given |-> given, expires_in |-> expires_in, prov |-> prov,
                result |-> generate_presigned_download_url(
                              s3_key, expires_in_or_default(given, expires_in), prov)]
    /\ UNCHANGED <<config, users, items, kd, user_calls>>

\* LibraryItem.soft_delete
soft_delete(item_id) ==
    /\ items' = [items EXCEPT ![item_id].deleted_at = [at |-> "now"]]
    /\ UNCHANGED <<config, users, last, kd, user_calls>>

\* LibraryItem.restore
restore(item_id) ==
    /\ items' = [items EXCEPT ![item_id].deleted_at = None]
    /\ UNCHANGED <<config, users, last, kd, user_calls>>

\* a request dropped while its provider call is pending: the handler is
\* left at the await of the issuer, and nothing is answered
AbandonRequest(op) ==
    /\ last = lastNone
    /\ s3_client = "client"
    /\ last' = [op |-> "abandoned", mode |-> s3_client, request_op |-> op]
    /\ UNCHANGED <<config, users, items, kd, user_calls>>

\* the response (or result) is handed back to the caller
Reply ==
    /\ last # lastNone
    /\ last' = lastNone
    /\ UNCHANGED <<config, users, items, kd, user_calls>>

StoredKeys == {items[i].s3_key : i \in ItemIds}

\* expiries a caller of the service passes: the default and another
Expiries == {DefaultExpiresIn, 60}

\* the expires_in argument of a call: one of Expiries when the call passes
\* it, nothing (0 stands for it) when it does not
ExpiryArgs(given) == IF given THEN Expiries ELSE {0}

okOutcome == [ok |-> TRUE, kind |-> "none", text |-> ""]

\* the outcome of a provider call is drawn only when the call can be made:
\* never in Degraded mode, and a second call only after a first that returned
Outcomes == IF s3_client = "None" THEN {okOutcome} ELSE ProviderOutcomes
OutcomesAfter(prov) == IF prov.ok THEN Outcomes ELSE {okOutcome}

\* the user lookup is reached, and may fail, only with a decoded subject
DbErrors(credentials) ==
    IF credentials.decodes /\ credentials.sub # "" THEN BOOLEAN ELSE {FALSE}

Next ==
    \/ \E request \in UploadRequests, credentials \in Credentials, token \in Tokens,
          prov \in Outcomes :
           \E dbError \in DbErrors(credentials) :
               RequestUploadCredential(request, credentials, dbError, token, prov)
    \/ \E item_id \in RequestedIds, credentials \in Credentials, prov1 \in Outcomes :
           \E dbError \in DbErrors(credentials), prov2 \in OutcomesAfter(prov1) :
               RequestDownloadCredential(item_id, credentials, dbError, prov1, prov2)
    \/ \E s3_key \in StoredKeys, prov \in Outcomes : DeleteFile(s3_key, prov)
    \/ \E source_key \in StoredKeys, dest_key \in StoredKeys, prov \in Outcomes :
           CopyFile(source_key, dest_key, prov)
    \/ \E s3_key \in StoredKeys, prov \in Outcomes : GetFileInfo(s3_key, prov)
    \/ \E filename \in {<<>>, <<"a", ".", "b">>}, content_type \in {ctImage, ctBad},
          user_id \in {uid1, testUserLit}, given \in BOOLEAN,
          token \in Tokens, prov \in Outcomes :
           \E expires_in \in ExpiryArgs(given) :
               IssueUploadCredential(filename, content_type, user_id, given,
                                     expires_in, token, prov)
    \/ \E s3_key \in StoredKeys, given \in BOOLEAN, prov \in Outcomes :
           \E expires_in \in ExpiryArgs(given) :
               IssueDownloadCredential(s3_key, given, expires_in, prov)
    \/ \E item_id \in ItemIds : soft_delete(item_id)
    \/ \E item_id \in ItemIds : restore(item_id)
    \/ \E op \in {"upload", "download"} : AbandonRequest(op)
    \/ Reply

Spec == Init /\ [][Next]_vars

(***************************************************************************)
(* The key deriver on its own: every filename up to MaxLen characters.     *)
(***************************************************************************)
InitKey ==
    /\ s3_client = "None"
    /\ bucket_name = "library-bucket"
    /\ DEBUG = TRUE
    /\ users = {alice, bob}
    /\ items = [i \in ItemIds |-> ItemRow(uid1, EnumMember("VisibilityType", "private"),
                                          key1, None, <<"a", ".", "b">>, 1)]
    /\ last = lastNone
    /\ user_calls = noCalls
    /\ \E f \in StringsUpTo(MaxLen), u \in UserIds \cup {testUserLit},
          n \in Nows, t \in Tokens :
           kd = [phase |-> "input", filename |-> f, user_id |-> u, now |-> n,
                 token |-> t, s3_key |-> <<>>, thumbnail_key |-> <<>>]

DeriveStorageKey ==
    /\ kd.phase = "input"
    /\ kd' = [kd EXCEPT !.phase = "derived",
                        !.s3_key = generate_s3_key(kd.filename, kd.user_id,
                                                   kd.now, kd.token)]
    /\ UNCHANGED <<config, users, items, last, user_calls>>

\* the thumbnail key of the storage key just derived
DeriveThumbnailKey ==
    /\ kd.phase = "derived"
    /\ kd' = [kd EXCEPT !.phase = "thumb",
                        !.thumbnail_key = generate_thumbnail_key(kd.s3_key)]
    /\ UNCHANGED <<config, users, items, last, user_calls>>

NextKey == DeriveStorageKey \/ DeriveThumbnailKey

SpecKey == InitKey /\ [][NextKey]_vars

(***************************************************************************)
(* The classification helpers on their own: every content type made of up  *)
(* to MaxCtParts pieces.                                                   *)
(***************************************************************************)
MaxCtParts == 3

CtPieces == {imageLit, videoLit, <<"/">>, <<"p">>, <<"i">>}

RECURSIVE ContentTypesOf(_)
ContentTypesOf(n) ==
    IF n = 0 THEN {<<>>}
    ELSE ContentTypesOf(n - 1)
            \cup {c \o p : c \in ContentTypesOf(n - 1), p \in CtPieces}

InitKind ==
    /\ s3_client = "None"
    /\ bucket_name = "library-bucket"
    /\ DEBUG = TRUE
    /\ users = {alice, bob}
    /\ items = [i \in ItemIds |-> ItemRow(uid1, EnumMember("VisibilityType", "private"),
                                          key1, None, <<"a", ".", "b">>, 1)]
    /\ last = lastNone
    /\ user_calls = noCalls
    /\ \E c \in ContentTypesOf(MaxCtParts) :
           kd = [phase |-> "content type", content_type |-> c,
                 is_image |-> FALSE, is_video |-> FALSE, needs_thumbnail |-> FALSE]

\* the three helpers applied to the content type
Classify ==
    /\ kd.phase = "content type"
    /\ kd' = [kd EXCEPT !.phase = "classified",
                        !.is_image = is_image_file(kd.content_type),
                        !.is_video = is_video_file(kd.content_type),
                        !.needs_thumbnail = needs_thumbnail(kd.content_type)]
    /\ UNCHANGED <<config, users, items, last, user_calls>>

NextKind == Classify

SpecKind == InitKind /\ [][NextKind]_vars

(***************************************************************************)
(* The users table under concurrent calls: app/crud/user.py create_user    *)
(* and update_user.  Each call runs in its own session and gives way at    *)
(* every await, so the steps of different calls interleave.                *)
(***************************************************************************)
MaxCalls == 2

CallIds == 1..MaxCalls

\* user_in of the calls: usernames and nicknames, one of each stored
\* already; "" stands for a nickname that UserUpdate leaves out (None)
NewUsernames == {"alice", "carol", "dave"}
NewNicknames == {"al", "cy"}
UpdateNicknames == {"", "al", "cy"}
UpdateIds == {uid1, uid2, <<"u", "-", "9">>}

idleCall ==
    [op |-> "none", pc |-> "idle", username |-> "", nickname |-> "",
     user_id |-> <<>>, user |-> None, outcome |-> "none",
     before |-> {}, after |-> {}]

\* User.id default=uuid.uuid4: an id no other row has
NewId(username) == <<"i", "d", "-", username>>

\* CRUDUser.get_by_nickname: scalar_one_or_none raises when several rows
\* have the nickname
get_by_nickname(nickname) ==
    LET found == {u \in users : u.nickname = nickname}
    IN  IF found = {} THEN [raised |-> FALSE, user |-> None]
        ELSE IF Cardinality(found) = 1
        THEN [raised |-> FALSE, user |-> CHOOSE u \in found : TRUE]
        ELSE [raised |-> TRUE, user |-> None]

\* the unique constraint of the users table: on username only
violates_unique(rows, row) == \E u \in rows : u.username = row.username

\* CRUDBase.create: the row is inserted and committed, unless the table
\* refuses it
CRUDBase_create(rows, row) ==
    IF violates_unique(rows, row)
    THEN [raised |-> TRUE, rows |-> rows]
    ELSE [raised |-> FALSE, rows |-> rows \cup {row}]

\* CRUDBase.get: the row with that id, or None
CRUDBase_get(rows, user_id) ==
    IF \E u \in rows : u.id = user_id
    THEN CHOOSE u \in rows : u.id = user_id
    ELSE None

\* CRUDBase.update: the fields user_in sets are written to the row and
\* committed
CRUDBase_update(rows, user, nickname) ==
    IF nickname = "" THEN rows
    ELSE {IF u.id = user.id THEN [u EXCEPT !.nickname = nickname] ELSE u : u \in rows}

InitUsers ==
    /\ s3_client = "None"
    /\ bucket_name = "library-bucket"
    /\ DEBUG = TRUE
    /\ users = {alice, bob}
    /\ items = [i \in ItemIds |-> ItemRow(uid1, EnumMember("VisibilityType", "private"),
                                          key1, None, <<"a", ".", "b">>, 1)]
    /\ last = lastNone
    /\ kd = kdIdle
    /\ user_calls = [c \in CallIds |-> idleCall]

Finish(c, outcome, rows) ==
    [user_calls[c] EXCEPT !.pc = "finished", !.outcome = outcome,
                          !.before = users, !.after = rows]

\* create_user is called
CreateUserCalled(c, username, nickname) ==
    /\ user_calls[c].pc = "idle"
    /\ user_calls' = [user_calls EXCEPT ![c] =
                        [idleCall EXCEPT !.op = "create_user", !.pc = "get_by_username",
                                         !.username = username, !.nickname = nickname]]
    /\ UNCHANGED <<config, users, items, last, kd>>

\* existing_user = await self.get_by_username(...); ValueError if there is one
CreateUserGetByUsername(c) ==
    /\ user_calls[c].op = "create_user" /\ user_calls[c].pc = "get_by_username"
    /\ user_calls' = [user_calls EXCEPT ![c] =
                        IF get_by_username(user_calls[c].username) # None
                        THEN Finish(c, "ValueError", users)
                        ELSE [user_calls[c] EXCEPT !.pc = "get_by_nickname"]]
    /\ UNCHANGED <<config, users, items, last, kd>>

\* existing_nickname = await self.get_by_nickname(...); ValueError if there is
CreateUserGetByNickname(c) ==
    /\ user_calls[c].op = "create_user" /\ user_calls[c].pc = "get_by_nickname"
    /\ LET existing == get_by_nickname(user_calls[c].nickname)
       IN  user_calls' = [user_calls EXCEPT ![c] =
                            IF existing.raised
                            THEN Finish(c, "MultipleResultsFound", users)
                            ELSE IF existing.user # None
                            THEN Finish(c, "ValueError", users)
                            ELSE [user_calls[c] EXCEPT !.pc = "create"]]
    /\ UNCHANGED <<config, users, items, last, kd>>

\* return await self.create(db, obj_in=user_in)
CreateUserCreate(c) ==
    /\ user_calls[c].op = "create_user" /\ user_calls[c].pc = "create"
    /\ LET row == [id |-> NewId(user_calls[c].username),
                   username |-> user_calls[c].username,
                   nickname |-> user_calls[c].nickname]
           created == CRUDBase_create(users, row)
       IN  /\ users' = created.rows
           /\ user_calls' = [user_calls EXCEPT ![c] =
                                Finish(c, IF created.raised THEN "IntegrityError"
                                          ELSE "created", created.rows)]
    /\ UNCHANGED <<config, items, last, kd>>

\* update_user is called
UpdateUserCalled(c, user_id, nickname) ==
    /\ user_calls[c].pc = "idle"
    /\ user_calls' = [user_calls EXCEPT ![c] =
                        [idleCall EXCEPT !.op = "update_user", !.pc = "get",
                                         !.user_id = user_id, !.nickname = nickname]]
    /\ UNCHANGED <<config, users, items, last, kd>>

\* user = await self.get(db, id=user_id); None is returned if there is none;
\* the nickname check is made only for a nickname that is given and new
UpdateUserGet(c) ==
    /\ user_calls[c].op = "update_user" /\ user_calls[c].pc = "get"
    /\ LET user == CRUDBase_get(users, user_calls[c].user_id)
       IN  user_calls' = [user_calls EXCEPT ![c] =
                            IF user = None THEN Finish(c, "None", users)
                            ELSE [user_calls[c] EXCEPT
                                     !.user = user,
                                     !.pc = IF user_calls[c].nickname # ""
                                               /\ user_calls[c].nickname # user.nickname
                                            THEN "get_by_nickname" ELSE "update"]]
    /\ UNCHANGED <<config, users, items, last, kd>>

\* existing_nickname = await self.get_by_nickname(...); ValueError if it is
\* another user's
UpdateUserGetByNickname(c) ==
    /\ user_calls[c].op = "update_user" /\ user_calls[c].pc = "get_by_nickname"
    /\ LET existing == get_by_nickname(user_calls[c].nickname)
       IN  user_calls' = [user_calls EXCEPT ![c] =
                            IF existing.raised
                            THEN Finish(c, "MultipleResultsFound", users)
                            ELSE IF existing.user # None
                                    /\ existing.user.id # user_calls[c].user.id
                            THEN Finish(c, "ValueError", users)
                            ELSE [user_calls[c] EXCEPT !.pc = "update"]]
    /\ UNCHANGED <<config, users, items, last, kd>>

\* return await self.update(db, db_obj=user, obj_in=user_in)
UpdateUserUpdate(c) ==
    /\ user_calls[c].op = "update_user" /\ user_calls[c].pc = "update"
    /\ LET rows == CRUDBase_update(users, user_calls[c].user, user_calls[c].nickname)
       IN  /\ users' = rows
           /\ user_calls' = [user_calls EXCEPT ![c] = Finish(c, "updated", rows)]
    /\ UNCHANGED <<config, items, last, kd>>

\* the call has returned or raised; another may be made in its place
CallReturns(c) ==
    /\ user_calls[c].pc = "finished"
    /\ user_calls' = [user_calls EXCEPT ![c] = idleCall]
    /\ UNCHANGED <<config, users, items, last, kd>>

NextUsers ==
    \/ \E c \in CallIds, username \in NewUsernames, nickname \in NewNicknames :
           CreateUserCalled(c, username, nickname)
    \/ \E c \in CallIds : CreateUserGetByUsername(c)
    \/ \E c \in CallIds : CreateUserGetByNickname(c)
    \/ \E c \in CallIds : CreateUserCreate(c)
    \/ \E c \in CallIds, user_id \in UpdateIds, nickname \in UpdateNicknames :
           UpdateUserCalled(c, user_id, nickname)
    \/ \E c \in CallIds : UpdateUserGet(c)
    \/ \E c \in CallIds : UpdateUserGetByNickname(c)
    \/ \E c \in CallIds : UpdateUserUpdate(c)
    \/ \E c \in CallIds : CallReturns(c)

SpecUsers == InitUsers /\ [][NextUsers]_vars

(***************************************************************************)
(* Properties.  They are read in states where last holds a finished        *)
(* operation: its inputs, the row it read, and its response.               *)
(***************************************************************************)
IsDownload == last.op = "download"
IsUpload == last.op = "upload"

\* the caller a request's credentials stand for: a stored user, or None
Caller == get_current_user_optional(last.credentials, last.dbError).user

\* a download answered with the item's download credential
CredentialIssued ==
    /\ last.response.status = 200
    /\ last.response.issuer # <<>>
    /\ ~last.response.issuer[1].raised
    /\ last.response.data.download_url = last.response.issuer[1].value

\* a download the handler let through to the issuer: answered with the
\* credential, or with the provider's failure
Allowed == CredentialIssued \/ (last.response.status = 500 /\ last.response.issuer # <<>>)

IsPrivate(item) == item.visibility.value = "private"
IsPublic(item) == item.visibility.value = "public"

\* C1 (as claimed): a download of an item whose deleted_at is set is answered
\* NotFound and reaches no issuer, whoever the caller is.  Read here for the
\* callers that resolve to a stored user; it is violated: the handler never
\* reads deleted_at, and the owner of a deleted item gets its credential.
C1_DeletedItemIsNotFound ==
    (IsDownload /\ last.item # None /\ is_deleted(last.item) /\ Caller # None)
        => (last.response.status = 404 /\ last.response.issuer = <<>>)

\* C2 (as claimed): for a private item that is not deleted, the owner is let
\* through and every other caller, the absent one included, is answered
\* Forbidden with no credential.  Violated by the absent caller: 401.
C2_PrivateOthersForbidden ==
    (IsDownload /\ last.item # None /\ ~is_deleted(last.item) /\ IsPrivate(last.item))
        => IF Caller # None /\ Caller.id = last.item.user_profile_id
           THEN Allowed
           ELSE last.response.status = 403 /\ last.response.issuer = <<>>

\* C2 (amended): for a private item that is not deleted, a credential is
\* issued only to the owner; the owner is let through (credential, or the
\* provider's failure), another stored user is answered Forbidden, and a
\* caller that does not resolve to a stored user Unauthenticated, both
\* without any issuer call.
C2_PrivateOnlyOwner ==
    (IsDownload /\ last.item # None /\ ~is_deleted(last.item) /\ IsPrivate(last.item))
        => /\ CredentialIssued => (Caller # None /\ Caller.id = last.item.user_profile_id)
           /\ IF Caller = None
              THEN last.response.status = 401 /\ last.response.issuer = <<>>
              ELSE IF Caller.id = last.item.user_profile_id
              THEN Allowed
              ELSE last.response.status = 403 /\ last.response.issuer = <<>>

\* C2 witness: another stored user asked for a live private item and was
\* answered Forbidden.
C2_Witness ==
    /\ IsDownload /\ last.item # None /\ ~is_deleted(last.item) /\ IsPrivate(last.item)
    /\ Caller # None /\ Caller.id # last.item.user_profile_id
    /\ last.response.status = 403

\* C3 (as claimed): for a public item that is not deleted every caller is let
\* through.  Read here for the callers that resolve to a stored user; it is
\* violated: visibility is a VisibilityType member, never equal to the str
\* "public", so a stored user who is not the owner is answered Forbidden.
C3_PublicAllowsEveryone ==
    (IsDownload /\ last.item # None /\ ~is_deleted(last.item) /\ IsPublic(last.item)
        /\ Caller # None)
        => Allowed

UploadPassedChecks ==
    /\ validate_upload_request(last.request.filename, last.request.content_type,
                               last.request.file_size).valid
    /\ (Caller # None \/ DEBUG)

DownloadPassedChecks ==
    /\ Caller # None
    /\ last.item # None
    /\ (Caller.id = last.item.user_profile_id \/ IsPublic(last.item))

Rejections == {400, 401, 403, 404}

\* C4: a request answered InvalidRequest, Unauthenticated, NotFound or
\* Forbidden has called neither the issuer nor the provider, and the issuer is
\* called, and a provider error answered, only in a request whose validation
\* and authorization succeeded.
C4_ProviderOnlyAfterChecks ==
    /\ IsUpload =>
          /\ last.response.status \in Rejections
                => (last.response.issuer = <<>> /\ ProviderCalls(last.response.issuer) = <<>>)
          /\ (last.response.issuer # <<>> \/ last.response.status = 500)
                => UploadPassedChecks
    /\ IsDownload =>
          /\ last.response.status \in Rejections
                => (last.response.issuer = <<>> /\ ProviderCalls(last.response.issuer) = <<>>)
          /\ (last.response.issuer # <<>> \/ last.response.status = 500)
                => DownloadPassedChecks

\* C4 witness: an upload request that passed the checks, called the provider
\* and was answered with the provider's failure.
C4_Witness ==
    /\ IsUpload /\ UploadPassedChecks
    /\ last.response.status = 500
    /\ Len(ProviderCalls(last.response.issuer)) = 1

\* the results of the issuer calls an operation made, each with the
\* operation it is of
IssuerResults ==
    IF last.op \in {"issue_upload", "issue_download"} THEN <<last.result>>
    ELSE IF last.op \in {"upload", "download"} THEN last.response.issuer
    ELSE <<>>

IsUploadIssuer == last.op \in {"issue_upload", "upload"}

\* C5: in Degraded mode the upload and the download issuer call no provider,
\* raise nothing, and mark what they return as non-live: is_mock in the
\* upload credential, the mock=true query of the download URL.
C5_DegradedIsFlaggedAndOffline ==
    last.op # "none" /\ last.mode = "None" =>
        \A i \in 1..Len(IssuerResults) :
            LET e == IssuerResults[i]
            IN  /\ e.calls = <<>>
                /\ ~e.raised
                /\ IF IsUploadIssuer
                   THEN e.value.is_mock = TRUE /\ e.value.upload_url.query = "mock=true"
                   ELSE e.value.query = "mock=true"

\* C5 witness: both issuers have answered in Degraded mode (a download
\* request with its thumbnail).
C5_Witness ==
    /\ IsDownload /\ last.mode = "None"
    /\ Len(last.response.issuer) = 2

\* C6: no step changes the provider client handle or the bucket name.
C6_ModeIsFixed == [][s3_client' = s3_client /\ bucket_name' = bucket_name]_vars

\* C6 witness: a storage operation has failed at the provider in Live mode,
\* and the client is still there.
C6_Witness ==
    /\ last.op = "delete" /\ last.mode = "client" /\ ~last.prov.ok
    /\ s3_client = "client"

\* C7: in Live mode a failed provider call makes the issuer raise: it returns
\* no credential, mock or live, the request is answered with an error and no
\* data, and the client is still there.
C7_ProviderFailureIsAnError ==
    /\ (last.op \in {"issue_upload", "issue_download"} /\ last.mode = "client"
            /\ ~last.prov.ok)
          => (last.result.raised /\ last.result.value = NoValue
                /\ Len(last.result.calls) = 1 /\ s3_client = "client")
    /\ (IsUpload /\ last.mode = "client" /\ UploadPassedChecks /\ ~last.prov.ok)
          => (last.response.status = 500 /\ last.response.data = NoValue
                /\ last.response.issuer[1].raised /\ s3_client = "client")
    /\ (IsDownload /\ last.mode = "client" /\ last.response.issuer # <<>>
            /\ (~last.prov1.ok \/ (Truthy(last.item.s3_thumbnail_key) /\ ~last.prov2.ok)))
          => (last.response.status = 500 /\ last.response.data = NoValue
                /\ last.response.issuer[Len(last.response.issuer)].raised
                /\ s3_client = "client")

\* C7 witness: the upload issuer's provider call failed in Live mode.
C7_Witness ==
    /\ last.op = "issue_upload" /\ last.mode = "client" /\ ~last.prov.ok
    /\ last.result.raised

\* C8: the response to a request whose provider call failed is the same
\* whatever the provider's error text: the request run again with any other
\* text in place of the provider's gives the same status, detail and data.
C8_ResponseIndependentOfErrorText ==
    /\ (IsUpload /\ ~last.prov.ok) =>
          \A t \in ErrTexts :
              UserVisible(upload_route(last.request, last.credentials, last.dbError,
                                       last.now, last.token,
                                       [last.prov EXCEPT !.text = t]))
                  = UserVisible(last.response)
    /\ (IsDownload /\ (~last.prov1.ok \/ ~last.prov2.ok)) =>
          \A t \in ErrTexts :
              UserVisible(download_route(
                              last.item_id, last.credentials, last.dbError,
                              IF last.prov1.ok THEN last.prov1
                              ELSE [last.prov1 EXCEPT !.text = t],
                              IF last.prov2.ok THEN last.prov2
                              ELSE [last.prov2 EXCEPT !.text = t]))
                  = UserVisible(last.response)

\* C8 witness: an upload request answered with the provider's failure.
C8_Witness ==
    /\ IsUpload /\ ~last.prov.ok /\ last.prov.kind = "ClientError"
    /\ last.response.status = 500

\* the text after the last '.' of a filename, empty when it has no '.'
ExtensionOf(filename) ==
    IF Contains(filename, ".") THEN RSplitDot(filename).ext ELSE <<>>

\* C10 (as claimed): the storage key is exactly the five '/'-separated
\* segments uploads, the 4-digit year, the 2-digit month, the owner id, and
\* the token followed by '.' and the extension (the bare token when the
\* extension is empty).  Violated by a filename with '/' after its last '.'.
C10_KeyHasFiveSegments ==
    kd.phase = "derived" =>
        LET parts == Split(kd.s3_key, "/")
            ext == ExtensionOf(kd.filename)
        IN  /\ Len(parts) = 5
            /\ parts[1] = uploadsLit
            /\ parts[2] = IntToStr(kd.now.year) /\ Len(parts[2]) = 4
            /\ parts[3] = Pad2(kd.now.month) /\ Len(parts[3]) = 2
            /\ parts[4] = kd.user_id
            /\ parts[5] = IF ext = <<>> THEN kd.token ELSE kd.token \o <<".">> \o ext

\* C11 (as claimed): for every storage key the deriver produces, the
\* thumbnail key is thumbnails/<year>/<month>/<ownerId>/<token>_thumb.<ext>
\* (<token>_thumb when there is no extension): five segments, the first
\* 'thumbnails', year, month and owner those of the storage key, '_thumb'
\* right after the token.  Violated for the six-segment keys of C10: there
\* '_thumb' is appended to what follows the last '/' of the extension.
C11_ThumbnailKeyFormat ==
    kd.phase = "thumb" =>
        LET parts == Split(kd.thumbnail_key, "/")
            ext == ExtensionOf(kd.filename)
        IN  /\ Len(parts) = 5
            /\ parts[1] = thumbnailsLit
            /\ parts[2] = IntToStr(kd.now.year)
            /\ parts[3] = Pad2(kd.now.month)
            /\ parts[4] = kd.user_id
            /\ parts[5] = IF ext = <<>> THEN kd.token \o thumbLit
                          ELSE kd.token \o thumbLit \o <<".">> \o ext

\* every storage key the deriver produces, from the inputs of InitKey
ProducibleKeys ==
    {generate_s3_key(f, u, n, t) :
        f \in StringsUpTo(MaxLen), u \in UserIds \cup {testUserLit},
        n \in Nows, t \in Tokens}

\* each producible storage key with its thumbnail key
ThumbnailKeyOf == {<<k, generate_thumbnail_key(k)>> : k \in ProducibleKeys}

\* s without its last Len(suffix) characters when it ends with suffix
StripSuffix(s, suffix) ==
    IF Len(s) >= Len(suffix)
          /\ SubSeq(s, Len(s) - Len(suffix) + 1, Len(s)) = suffix
    THEN SubSeq(s, 1, Len(s) - Len(suffix))
    ELSE s

\* the way back the claim describes: 'thumbnails' becomes 'uploads' again and
\* the '_thumb' that ends the name (before the extension) is removed
RecoverStorageKey(thumbnail_key) ==
    LET path_parts == Split(thumbnail_key, "/")
        filename == Last(path_parts)
        recovered == IF Contains(filename, ".")
                     THEN StripSuffix(RSplitDot(filename).name, thumbLit)
                              \o <<".">> \o RSplitDot(filename).ext
                     ELSE StripSuffix(filename, thumbLit)
    IN  uploadsLit \o <<"/">>
            \o Join(SubSeq(path_parts, 2, Len(path_parts) - 1), "/")
            \o <<"/">> \o recovered

\* C12: the thumbnail derivation is one-to-one on the storage keys the
\* deriver produces: no other producible storage key has the thumbnail key
\* of the one just derived, and the storage key is recovered from its
\* thumbnail key by putting 'uploads' back and removing '_thumb'.
C12_ThumbnailKeyIsOneToOne ==
    kd.phase = "thumb" =>
        /\ \A p \in ThumbnailKeyOf :
               p[2] = kd.thumbnail_key => p[1] = kd.s3_key
        /\ RecoverStorageKey(kd.thumbnail_key) = kd.s3_key

\* C12 witness: a thumbnail key derived from a key with an extension, while
\* another producible key differs from it in the extension only.
C12_Witness ==
    /\ kd.phase = "thumb"
    /\ ExtensionOf(kd.filename) = <<"a">>
    /\ kd.thumbnail_key = generate_thumbnail_key(kd.s3_key)
    /\ generate_s3_key(<<".", "b">>, kd.user_id, kd.now, kd.token) \in ProducibleKeys \ {kd.s3_key}

\* an upload request whose filename and content type pass the validator, so
\* that the declared size decides
SizeDecides ==
    /\ IsUpload
    /\ last.request.filename # <<>>
    /\ Len(last.request.filename) <= MaxFilenameLen
    /\ IsMimeType(last.request.content_type)

IssuerInputs ==
    IF IsUpload
    THEN [filename |-> last.request.filename,
          content_type |-> last.request.content_type,
          user_id |-> upload_identity(Caller).user_id]
    ELSE [filename |-> last.filename, content_type |-> last.content_type,
          user_id |-> last.user_id]

\* C14: in Live mode the grant the upload issuer asks of the provider is for
\* the key of the credential it returns, a key derived under the issuer's
\* ownerId, and its conditions are exactly: the requested content type, the
\* ownerId tag, the original-filename tag, and the size range
\* [1, 100*1024*1024].
C14_GrantIsScoped ==
    (IsUploadIssuer /\ last.mode = "client") =>
        \A i \in 1..Len(IssuerResults) :
            LET e == IssuerResults[i]
            IN  \A j \in 1..Len(e.calls) :
                    /\ e.calls[j].api = "generate_presigned_post"
                    /\ ~e.raised => e.calls[j].Key = e.value.s3_key
                    /\ e.calls[j].Key
                          = generate_s3_key(IssuerInputs.filename, IssuerInputs.user_id,
                                            last.now, last.token)
                    /\ Split(e.calls[j].Key, "/")[4] = IssuerInputs.user_id
                    /\ e.calls[j].Conditions
                          = [ContentType |-> IssuerInputs.content_type,
                             meta_user_id |-> IssuerInputs.user_id,
                             meta_original_filename |-> IssuerInputs.filename,
                             content_length_range |-> <<1, 100 * 1024 * 1024>>]

\* C14 witness: the issuer, called on its own in Live mode, asked for the
\* grant and returned the credential.
C14_Witness ==
    /\ last.op = "issue_upload" /\ last.mode = "client"
    /\ ~last.result.raised
    /\ Len(last.result.calls) = 1
    /\ last.result.calls[1].Key = last.result.value.s3_key

\* C15 (as claimed): in Degraded mode delete_file and copy_file return true
\* with no provider call; in Live mode they make the provider call and
\* return, the failure of the call being reported as false and never raised.
\* Violated by a failure of the call that is no ClientError (the endpoint
\* cannot be reached): only ClientError is caught, anything else is raised.
C15_StorageOpsReportByBoolean ==
    last.op \in {"delete", "copy"} =>
        IF last.mode = "None"
        THEN ~last.result.raised /\ last.result.value = TRUE
                /\ last.result.calls = <<>>
        ELSE Len(last.result.calls) = 1
                /\ ~last.result.raised
                /\ last.result.value = last.prov.ok

\* the outcome drawn for the provider call of the i-th issuer invocation
ProvOf(i) ==
    IF IsDownload THEN (IF i = 1 THEN last.prov1 ELSE last.prov2) ELSE last.prov

\* C16: every invocation of the upload or the download issuer makes exactly
\* one provider call in Live mode and none in Degraded mode; when the call
\* fails the issuer raises with no value, having made that one call only,
\* and the request that invoked it invokes no issuer again and is answered
\* with the error.
C16_OneProviderCallPerIssue ==
    last.op \in {"issue_upload", "issue_download", "upload", "download"} =>
        \A i \in 1..Len(IssuerResults) :
            LET e == IssuerResults[i]
            IN  /\ Len(e.calls) = IF last.mode = "client" THEN 1 ELSE 0
                /\ (last.mode = "client" /\ ~ProvOf(i).ok) =>
                       /\ e.raised /\ e.value = NoValue
                       /\ i = Len(IssuerResults)
                       /\ last.op \in {"upload", "download"} =>
                              (last.response.status = 500
                                  /\ Len(ProviderCalls(last.response.issuer)) = i)

\* C16 witness: in Live mode the item's download credential was issued with
\* one call, the thumbnail's call failed, and two calls were made in all.
C16_Witness ==
    /\ IsDownload /\ last.mode = "client"
    /\ Len(last.response.issuer) = 2
    /\ last.prov1.ok /\ ~last.prov2.ok
    /\ Len(ProviderCalls(last.response.issuer)) = 2
    /\ last.response.status = 500

\* the item read by a download has a thumbnail key
HasThumbnailKey == Truthy(last.item.s3_thumbnail_key)

\* C17: a successful download response has the thumbnail_url field exactly
\* when the item has a thumbnail key; the field holds the result of a second
\* issuer call, made for the thumbnail key after the one for the item's
\* key; without a thumbnail key one issuer call is made and the field is
\* absent.
C17_ThumbnailIffKey ==
    (IsDownload /\ last.response.status = 200) =>
        LET r == last.response
        IN  /\ ("thumbnail_url" \in DOMAIN r.data) <=> HasThumbnailKey
            /\ r.data.download_url = r.issuer[1].value
            /\ r.data.download_url.key = last.item.s3_key
            /\ IF HasThumbnailKey
               THEN /\ Len(r.issuer) = 2
                    /\ r.data.thumbnail_url = r.issuer[2].value
                    /\ r.data.thumbnail_url.key = last.item.s3_thumbnail_key.value
                    /\ last.mode = "client" =>
                          (Len(ProviderCalls(r.issuer)) = 2
                              /\ r.issuer[2].calls[1].Key
                                    = last.item.s3_thumbnail_key.value)
               ELSE Len(r.issuer) = 1

\* C17 witness: a successful Live download of the item with a thumbnail key:
\* two issuer calls, two different URLs.
C17_Witness ==
    /\ IsDownload /\ last.response.status = 200 /\ last.mode = "client"
    /\ HasThumbnailKey
    /\ "thumbnail_url" \in DOMAIN last.response.data
    /\ last.response.data.thumbnail_url # last.response.data.download_url

\* C17 witness of the other case: a successful download of the item without
\* a thumbnail key.
C17_WitnessNoThumbnail ==
    /\ IsDownload /\ last.response.status = 200
    /\ ~HasThumbnailKey
    /\ ~("thumbnail_url" \in DOMAIN last.response.data)

\* C18: the credential the upload issuer returns carries the expiry the
\* call passed, 3600 when it passed none, and that is the ExpiresIn asked of
\* the provider; the download issuer asks the provider for the expiry it was
\* called with; the upload and the download handler call the issuers with
\* expiry 3600, for the item and for its thumbnail, in Live and in Degraded
\* mode, and the upload response carries 3600.
C18_ExpiryIsPassedThrough ==
    /\ last.op \in {"issue_upload", "issue_download"} =>
          LET expiry == IF last.given THEN last.expires_in ELSE 3600
          IN  /\ last.result.args.expires_in = expiry
              /\ (last.op = "issue_upload" /\ ~last.result.raised)
                    => last.result.value.expires_in = expiry
              /\ \A j \in 1..Len(last.result.calls) :
                    last.result.calls[j].ExpiresIn = expiry
    /\ last.op \in {"upload", "download"} =>
          /\ \A i \in 1..Len(IssuerResults) :
                LET e == IssuerResults[i]
                IN  /\ e.args.expires_in = 3600
                    /\ (IsUpload /\ ~e.raised) => e.value.expires_in = 3600
                    /\ \A j \in 1..Len(e.calls) : e.calls[j].ExpiresIn = 3600
          /\ (IsUpload /\ last.response.status = 200)
                => last.response.data.expires_in = 3600

\* C18 witness: the upload issuer, called in Live mode with an expiry other
\* than the default, asked the provider for it and returned it.
C18_Witness ==
    /\ last.op = "issue_upload" /\ last.mode = "client"
    /\ last.given /\ last.expires_in = 60
    /\ ~last.result.raised
    /\ last.result.value.expires_in = 60
    /\ last.result.calls[1].ExpiresIn = 60

\* the MIME top-level type of a content type: what stands before its first
\* '/'; a text without '/' is no MIME type and has none
HasTopLevelType(content_type, type) ==
    Contains(content_type, "/") /\ Split(content_type, "/")[1] = type

\* C19: a content type is an image exactly when its top-level type is
\* 'image', a video exactly when it is 'video', needs a thumbnail exactly
\* when it is an image or a video, and is never both.
C19_ClassifiedByTopLevelType ==
    kd.phase = "classified" =>
        /\ kd.is_image <=> HasTopLevelType(kd.content_type, imageLit)
        /\ kd.is_video <=> HasTopLevelType(kd.content_type, videoLit)
        /\ kd.needs_thumbnail <=> (kd.is_image \/ kd.is_video)
        /\ ~(kd.is_image /\ kd.is_video)

\* C19 witness: a content type that begins with 'image' but has another
\* top-level type has been classified: neither image nor video.
C19_Witness ==
    /\ kd.phase = "classified"
    /\ kd.content_type = imageLit \o <<"p">> \o <<"/">>
    /\ ~kd.is_image /\ ~kd.needs_thumbnail

\* C19 witness of the positive case: image/p is an image and needs a
\* thumbnail.
C19_WitnessImage ==
    /\ kd.phase = "classified"
    /\ kd.content_type = imageLit \o <<"/">> \o <<"p">>
    /\ kd.is_image /\ ~kd.is_video /\ kd.needs_thumbnail

\* an upload request the validator accepts
ValidUpload ==
    /\ IsUpload
    /\ validate_upload_request(last.request.filename, last.request.content_type,
                               last.request.file_size).valid

\* the owner segment of the storage key in an upload response
OwnerSegment == Split(last.response.data.s3_key, "/")[4]

\* C20: a valid upload request without caller identity is answered
\* Unauthenticated, with no issuer call (no key, no credential), when DEBUG
\* is off; when DEBUG is on the issuer is called under 'test-user' and,
\* unless the provider call fails, the credential is returned with
\* 'test-user' as the owner segment of its key.  With a caller identity the
\* issuer is called under the caller's id, which is the owner segment, and
\* never under the placeholder.
C20_PlaceholderOnlyUnderDebug ==
    ValidUpload =>
        LET r == last.response
        IN  IF Caller = None
            THEN IF ~DEBUG
                 THEN r.status = 401 /\ r.issuer = <<>>
                 ELSE /\ Len(r.issuer) = 1
                      /\ r.issuer[1].args.user_id = testUserLit
                      /\ r.status = IF last.mode = "None" \/ last.prov.ok
                                    THEN 200 ELSE 500
                      /\ r.status = 200 => OwnerSegment = testUserLit
            ELSE /\ Len(r.issuer) = 1
                 /\ r.issuer[1].args.user_id = Caller.id
                 /\ Caller.id # testUserLit
                 /\ r.status = IF last.mode = "None" \/ last.prov.ok
                               THEN 200 ELSE 500
                 /\ r.status = 200 => OwnerSegment = Caller.id

\* C20 witness: with DEBUG on, a valid request without caller identity got a
\* credential for a key under 'test-user'.
C20_Witness ==
    /\ ValidUpload /\ Caller = None /\ DEBUG
    /\ last.response.status = 200
    /\ OwnerSegment = testUserLit

\* C20 witness of the other case: with DEBUG off the same request was
\* answered Unauthenticated.
C20_WitnessDebugOff ==
    /\ ValidUpload /\ Caller = None /\ ~DEBUG
    /\ last.response.status = 401

\* C21: a step that takes an upload or a download request, whatever its
\* outcome (credential, validation or authorization error, provider error,
\* or the request dropped while the provider call is pending), leaves the
\* item rows, the stored users, the client handle and the bucket name as
\* they were.
C21_RequestsWriteNothing ==
    [][(last.op = "none" /\ last'.op \in {"upload", "download", "abandoned"})
          => (items' = items /\ users' = users
                /\ s3_client' = s3_client /\ bucket_name' = bucket_name)]_vars

\* C21 witness: a download answered with the provider's failure, the row it
\* read still stored as it was read.
C21_Witness ==
    /\ IsDownload /\ last.response.status = 500
    /\ last.item = items[last.item_id]
    /\ s3_client = last.mode

\* the credentials of the request resolve to a stored user: the token is
\* there, decodes, has a subject, the lookup raises nothing and finds a user
\* with that username
Resolves ==
    /\ last.credentials.present
    /\ last.credentials.decodes
    /\ last.credentials.sub # ""
    /\ ~last.dbError
    /\ \E u \in users : u.username = last.credentials.sub

\* C22: a download request looks the item up only when its credentials
\* resolve to a stored user; missing credentials, an undecodable token, a
\* token without subject, a subject of no user and an error of the lookup
\* are all answered 401 with no item lookup, no issuer call and no provider
\* call.
C22_UnresolvedCallerIsStopped ==
    IsDownload =>
        IF Resolves
        THEN last.response.status # 401 /\ Len(last.response.lookups) = 1
                /\ last.response.lookups[1].id = last.item_id
        ELSE last.response.status = 401
                /\ last.response.lookups = <<>>
                /\ last.response.issuer = <<>>
                /\ ProviderCalls(last.response.issuer) = <<>>

\* C22 witness: the user lookup raised for a token whose subject is a stored
\* user, and the request for a stored item was answered 401 without lookup.
C22_Witness ==
    /\ IsDownload /\ last.dbError /\ last.credentials.sub = "alice"
    /\ last.item_id \in ItemIds
    /\ last.response.status = 401
    /\ last.response.lookups = <<>>

\* C23: the optional identity resolution of an upload request raises
\* nothing; it yields a user exactly when the token is there, decodes, has a
\* subject, the lookup raises nothing and a stored user has the subject as
\* username, and that user is the one it yields; in every other case it
\* yields None, and the request goes on to the handler: it is answered with
\* an error only by the validator, by the identity policy of the handler,
\* or for a failed provider call.
C23_OptionalIdentityNeverFails ==
    IsUpload =>
        /\ ~last.identity.raised
        /\ last.identity.user # None <=> Resolves
        /\ last.identity.user # None =>
               (last.identity.user \in users
                   /\ last.identity.user.username = last.credentials.sub)
        /\ (ValidUpload /\ (last.mode = "None" \/ last.prov.ok)) =>
               last.response.status
                   = IF last.identity.user = None /\ ~DEBUG THEN 401 ELSE 200

\* C23 witness: the user lookup raised for a token whose subject is a stored
\* user; the identity is None and, under DEBUG, the request was served.
C23_Witness ==
    /\ IsUpload /\ last.dbError /\ last.credentials.sub = "alice"
    /\ ~last.identity.raised /\ last.identity.user = None
    /\ DEBUG /\ ValidUpload /\ last.response.status = 200

\* C24 (as claimed): whatever create_user and update_user calls were made,
\* and however their steps interleaved, no two stored users have the same
\* username, no two have the same nickname, and a call rejected for a
\* duplicate (ValueError, or the table refusing the row) left the stored
\* users as they were.  Violated for the nickname: two calls that each found
\* the nickname free before the other wrote both write it.
C24_UsernamesAndNicknamesUnique ==
    /\ \A u1 \in users, u2 \in users :
          u1 # u2 => (u1.username # u2.username /\ u1.nickname # u2.nickname)
    /\ user_calls # noCalls =>
          \A c \in CallIds :
              (user_calls[c].pc = "finished"
                  /\ user_calls[c].outcome \in {"ValueError", "IntegrityError"})
                 => user_calls[c].after = user_calls[c].before

====
